---------------------------- MODULE Spec2Model ----------------------------
(***************************************************************************)
(* Model of analyze_health_data.py: load_data, calculate_statistics,       *)
(* find_abnormal_readings, generate_report, save_report and main.          *)
(*                                                                         *)
(* Text is modelled by TLA+ strings; a CSV field is a sequence of          *)
(* one-character strings so that parsing can inspect it.  A Python float   *)
(* is modelled by the exact rational it holds, as a reduced fraction       *)
(* [num, den] with den > 0; nan is [0, 0].  Every tie of the               *)
(* one-decimal rounding that the model can produce is a multiple of 1/4,   *)
(* which a binary float holds exactly, so the rational and the float       *)
(* format alike.                                                           *)
(***************************************************************************)
EXTENDS Integers, Sequences, FiniteSets, TLC

VARIABLES
    pc,         \* position of main: "start", "loaded", "stats", "abnormal",
                \* "total", "rendered", "saved", "done", "aborted", "crashed"
    inputFile,  \* the file at data_file: [exists, readable, lines]
    fs,         \* the output side of the filesystem: [dirs, files]
    data_file,  \* main: data_file
    out_file,   \* main: out_file / save_report: filename
    data,       \* main: data
    stats,      \* main: stats
    abnormal,   \* main: abnormal
    total,      \* main: total
    report,     \* main: report
    stdout,     \* what print() has emitted, in order
    raised,     \* the exception that left main, "" when none
    divided,    \* TRUE once np.mean (a division by data.size) has run in this run
    run,        \* number of the current invocation of main
    prevPc,     \* how the previous invocation ended ("" before the first)
    prevFs      \* the output filesystem as the previous invocation left it

vars == <<pc, inputFile, fs, data_file, out_file, data, stats, abnormal, total,
          report, stdout, raised, divided, run, prevPc, prevFs>>

\* ------------------------------------------------------------------ bounds
MaxRows == 2
MaxRuns == 2

\* ------------------------------------------------------- program constants
NCols == 8
HeartRateThreshold == 90
SystolicThreshold == 130
GlucoseThreshold == 110
SeparatorWidth == 40
U10 == 10
U20 == 20
DefaultInt == -1

\* A local of main that has not been assigned yet.
Unbound == <<>>

\* ------------------------------------------------------------------ floats
Abs(n) == IF n < 0 THEN -n ELSE n

RECURSIVE GCD(_, _)
GCD(a, b) == IF b = 0 THEN a ELSE GCD(b, a % b)

\* The float num/den (den > 0), in lowest terms.
Frac(num, den) ==
    LET g == GCD(Abs(num), den)
    IN  IF num = 0 THEN [num |-> 0, den |-> 1]
        ELSE [num |-> num \div g, den |-> den \div g]

Zero == [num |-> 0, den |-> 1]
\* nan, which no Frac(num, den) equals
NaN == [num |-> 0, den |-> 0]

\* ------------------------------------------------------------- CSV fields
Digits == {"0", "1", "2", "3", "4", "5", "6", "7", "8", "9"}

DigitVal(c) ==
    CASE c = "0" -> 0 [] c = "1" -> 1 [] c = "2" -> 2 [] c = "3" -> 3
      [] c = "4" -> 4 [] c = "5" -> 5 [] c = "6" -> 6 [] c = "7" -> 7
      [] c = "8" -> 8 [] c = "9" -> 9

RECURSIVE DigitsVal(_)
DigitsVal(s) ==
    IF s = <<>> THEN 0
    ELSE 10 * DigitsVal(SubSeq(s, 1, Len(s) - 1)) + DigitVal(s[Len(s)])

RECURSIVE Pow10(_)
Pow10(n) == IF n = 0 THEN 1 ELSE 10 * Pow10(n - 1)

AllDigits(s) == \A i \in 1..Len(s) : s[i] \in Digits

\* Python's float(x) on a field: an optional sign, digits, at most one point
\* and at least one digit.  [ok |-> FALSE] stands for ValueError.
float(tok) ==
    LET neg  == Len(tok) > 0 /\ tok[1] = "-"
        body == IF Len(tok) > 0 /\ tok[1] \in {"-", "+"} THEN Tail(tok) ELSE tok
        dots == {i \in 1..Len(body) : body[i] = "."}
        whole == IF dots = {} THEN body
                 ELSE SubSeq(body, 1, (CHOOSE i \in dots : TRUE) - 1)
        frac == IF dots = {} THEN <<>>
                ELSE SubSeq(body, (CHOOSE i \in dots : TRUE) + 1, Len(body))
        wellFormed == /\ Cardinality(dots) <= 1
                      /\ AllDigits(whole) /\ AllDigits(frac)
                      /\ Len(whole) + Len(frac) > 0
        mag == DigitsVal(whole \o frac)
    IN  IF wellFormed
        THEN [ok |-> TRUE,
              value |-> Frac(IF neg THEN -mag ELSE mag, Pow10(Len(frac)))]
        ELSE [ok |-> FALSE]

\* Python's int(f) on a float: truncation towards zero.
int(f) == IF f.num < 0 THEN -((-f.num) \div f.den) ELSE f.num \div f.den


\* ------------------------------------------------------------------ paths
\* A path is the sequence of its components; <<>> is the empty string ''.
RECURSIVE PathStr(_)
PathStr(p) ==
    IF p = <<>> THEN ""
    ELSE IF Len(p) = 1 THEN p[1]
    ELSE PathStr(SubSeq(p, 1, Len(p) - 1)) \o "/" \o p[Len(p)]

\* os.path.dirname
dirname(p) == IF p = <<>> THEN <<>> ELSE SubSeq(p, 1, Len(p) - 1)

\* ------------------------------------------------------------- input files
P1 == <<"P", "1">>
TS == <<"t", "0">>
S1 == <<"S", "1">>

Row(id, hr, sys, temp, glu) ==
    <<id, TS, hr, sys, <<"8", "0">>, temp, glu, S1>>

T366 == <<"3", "6", ".", "6">>

\* Data lines whose every field parses as its column's type.
CleanLines ==
    { Row(P1, <<"9", "0">>, <<"1", "3", "0">>, T366, <<"1", "1", "0">>),
      Row(P1, <<"9", "1">>, <<"1", "3", "0">>, T366, <<"1", "1", "0">>),
      Row(P1, <<"9", "0">>, <<"1", "3", "1">>, T366, <<"1", "1", "0">>),
      Row(P1, <<"9", "0">>, <<"1", "3", "0">>, T366, <<"1", "1", "1">>) }

NonNumericLine ==
    Row(P1, <<"a", "b", "c">>, <<"1", "2", "0">>, T366, <<"9", "5">>)
FractionalLine ==
    Row(P1, <<"9", "0", ".", "9">>, <<"1", "2", "0">>, T366, <<"9", "5">>)
BadTemperatureLine ==
    Row(P1, <<"8", "5">>, <<"1", "2", "0">>, <<"n", "/", "a">>, <<"9", "5">>)
ShortLine ==
    <<P1, TS, <<"8", "5">>, <<"1", "2", "0">>, <<"8", "0">>, T366, <<"9", "5">>>>

\* The data lines of the model; none of them is blank.
DataLines ==
    CleanLines \cup {NonNumericLine, FractionalLine, BadTemperatureLine, ShortLine}

HeaderLine ==
    <<<<"p">>, <<"t">>, <<"h">>, <<"s">>, <<"d">>, <<"c">>, <<"g">>, <<"i">>>>

SeqsUpTo(S, n) == UNION {[1..k -> S] : k \in 0..n}

\* The states the file at data_file can be in: absent, present but not
\* readable, empty, or a header followed by at most MaxRows data lines.
InputFiles ==
    {[exists |-> FALSE, readable |-> FALSE, lines |-> <<>>],
     [exists |-> TRUE, readable |-> FALSE, lines |-> <<HeaderLine>>],
     [exists |-> TRUE, readable |-> TRUE, lines |-> <<>>]}
    \cup {[exists |-> TRUE, readable |-> TRUE, lines |-> <<HeaderLine>> \o rows] :
            rows \in SeqsUpTo(DataLines, MaxRows)}

\* --------------------------------------------------------------- load_data
\* numpy's StringConverter for an 'i4' column under genfromtxt's default
\* loose=True: int(float(x)), and the default -1 when that raises ValueError.
ConvInt(tok) == IF float(tok).ok THEN int(float(tok).value) ELSE DefaultInt

\* The converter of the 'f4' column: float(x), and nan on ValueError.
ConvFloat(tok) == IF float(tok).ok THEN float(tok).value ELSE NaN

\* A 'U<n>' column keeps the first n characters.
ConvStr(tok, n) == SubSeq(tok, 1, IF Len(tok) < n THEN Len(tok) ELSE n)

\* One split line, converted column by column against dtype.
ConvertRow(r) ==
    [patient_id |-> ConvStr(r[1], U10),
     timestamp |-> ConvStr(r[2], U20),
     heart_rate |-> ConvInt(r[3]),
     blood_pressure_systolic |-> ConvInt(r[4]),
     blood_pressure_diastolic |-> ConvInt(r[5]),
     temperature |-> ConvFloat(r[6]),
     glucose_level |-> ConvInt(r[7]),
     sensor_id |-> ConvStr(r[8], U10)]

\* np.genfromtxt(filename, delimiter=',', dtype=dtype, skip_header=1):
\* the first line is skipped, and a line whose number of fields is not that
\* of dtype makes the whole call raise.
genfromtxt(name, file) ==
    LET kept == IF file.lines = <<>> THEN <<>> ELSE Tail(file.lines)
    IN  IF ~file.exists
        THEN [ok |-> FALSE, error |-> PathStr(name) \o " not found."]
        ELSE IF ~file.readable
        THEN [ok |-> FALSE,
              error |-> "[Errno 13] Permission denied: '" \o PathStr(name) \o "'"]
        ELSE IF \E i \in 1..Len(kept) : Len(kept[i]) # NCols
        THEN [ok |-> FALSE, error |-> "Some errors were detected !"]
        ELSE [ok |-> TRUE,
              value |-> [i \in 1..Len(kept) |-> ConvertRow(kept[i])]]

load_data(filename, file) == genfromtxt(filename, file)

\* ------------------------------------------------------ calculate_statistics
Column(d, field) == [i \in 1..Len(d) |-> d[i][field]]

RECURSIVE SumSeq(_)
SumSeq(s) == IF s = <<>> THEN 0 ELSE Head(s) + SumSeq(Tail(s))

\* float(np.mean(column)) of a non-empty integer column
mean(col) == Frac(SumSeq(col), Len(col))

\* calculate_statistics averaging the diastolic column for avg_systolic_bp.
calculate_statistics_diastolic(d) ==
    IF Len(d) = 0
    THEN [avg_heart_rate |-> Zero, avg_systolic_bp |-> Zero, avg_glucose |-> Zero]
    ELSE [avg_heart_rate |-> mean(Column(d, "heart_rate")),
          avg_systolic_bp |-> mean(Column(d, "blood_pressure_diastolic")),
          avg_glucose |-> mean(Column(d, "glucose_level"))]

\* calculate_statistics without the guard on data.size: np.mean of an empty
\* column is nan.
calculate_statistics_unguarded(d) ==
    IF Len(d) = 0
    THEN [avg_heart_rate |-> NaN, avg_systolic_bp |-> NaN, avg_glucose |-> NaN]
    ELSE [avg_heart_rate |-> mean(Column(d, "heart_rate")),
          avg_systolic_bp |-> mean(Column(d, "blood_pressure_systolic")),
          avg_glucose |-> mean(Column(d, "glucose_level"))]

calculate_statistics(d) ==
    IF Len(d) = 0
    THEN [avg_heart_rate |-> Zero, avg_systolic_bp |-> Zero, avg_glucose |-> Zero]
    ELSE [avg_heart_rate |-> mean(Column(d, "heart_rate")),
          avg_systolic_bp |-> mean(Column(d, "blood_pressure_systolic")),
          avg_glucose |-> mean(Column(d, "glucose_level"))]

\* ---------------------------------------------------- find_abnormal_readings
\* CountAbove comparing with >= instead of >.
CountAbove_inclusive(col, threshold) ==
    SumSeq([i \in 1..Len(col) |-> IF col[i] >= threshold THEN 1 ELSE 0])

\* int((column > threshold).sum())
CountAbove(col, threshold) ==
    SumSeq([i \in 1..Len(col) |-> IF col[i] > threshold THEN 1 ELSE 0])

find_abnormal_readings(d) ==
    IF Len(d) = 0
    THEN [high_heart_rate |-> 0, high_blood_pressure |-> 0, high_glucose |-> 0]
    ELSE [high_heart_rate |-> CountAbove(Column(d, "heart_rate"), HeartRateThreshold),
          high_blood_pressure |->
              CountAbove(Column(d, "blood_pressure_systolic"), SystolicThreshold),
          high_glucose |-> CountAbove(Column(d, "glucose_level"), GlucoseThreshold)]

\* ------------------------------------------------------------ generate_report
\* Format1f rounding a tie away from zero instead of to the even digit.
Format1f_halfUp(x) ==
    IF x.den = 0 THEN "nan"
    ELSE LET n == 10 * Abs(x.num)
             q == n \div x.den
             r == n % x.den
             t == IF 2 * r >= x.den THEN q + 1 ELSE q
         IN  (IF x.num < 0 THEN "-" ELSE "")
                 \o ToString(t \div 10) \o "." \o ToString(t % 10)

\* Python's format(x, ".1f"): the decimal with one digit after the point
\* nearest to x, a tie going to the even digit; the sign is kept; nan is "nan".
Format1f(x) ==
    IF x.den = 0 THEN "nan"
    ELSE LET n == 10 * Abs(x.num)
             q == n \div x.den
             r == n % x.den
             t == IF 2 * r > x.den THEN q + 1
                  ELSE IF 2 * r = x.den THEN q + (q % 2)
                  ELSE q
         IN  (IF x.num < 0 THEN "-" ELSE "")
                 \o ToString(t \div 10) \o "." \o ToString(t % 10)

\* s * n
RECURSIVE Repeat(_, _)
Repeat(s, n) == IF n = 0 THEN "" ELSE s \o Repeat(s, n - 1)

\* sep.join(ls)
RECURSIVE Join(_, _)
Join(ls, sep) ==
    IF ls = <<>> THEN ""
    ELSE IF Len(ls) = 1 THEN ls[1]
    ELSE ls[1] \o sep \o Join(Tail(ls), sep)

\* The list `lines` of generate_report, after its last append.
ReportLines(st, ab, tot) ==
    << "Health Sensor Data Analysis Report",
       Repeat("=", SeparatorWidth),
       "Total readings: " \o ToString(tot),
       "",
       "Averages:",
       "  - Heart Rate (avg): " \o Format1f(st.avg_heart_rate) \o " bpm",
       "  - Systolic BP (avg): " \o Format1f(st.avg_systolic_bp) \o " mmHg",
       "  - Glucose (avg): " \o Format1f(st.avg_glucose) \o " mg/dL",
       "",
       "Abnormal reading counts:",
       "  - High heart rate (>90): " \o ToString(ab.high_heart_rate),
       "  - High systolic BP (>130): " \o ToString(ab.high_blood_pressure),
       "  - High glucose (>110): " \o ToString(ab.high_glucose),
       Repeat("=", SeparatorWidth) >>

\* generate_report ending the text with a newline.
generate_report_trailing(st, ab, tot) == Join(ReportLines(st, ab, tot), "\n") \o "\n"

generate_report(st, ab, tot) == Join(ReportLines(st, ab, tot), "\n")

\* --------------------------------------------------------------- save_report
\* The output filesystem: the set of directories and the regular files with
\* their content.  The working directory <<>> always exists.
Exists(fsys, p) == p \in fsys.dirs \/ p \in DOMAIN fsys.files

IsDir(fsys, p) == p = <<>> \/ p \in fsys.dirs

Ancestors(p) == {SubSeq(p, 1, k) : k \in 1..Len(p)}

WriteFile(fsys, p, text) ==
    [fsys EXCEPT !.files =
        [q \in DOMAIN fsys.files \cup {p} |-> IF q = p THEN text ELSE fsys.files[q]]]

\* What the environment does to the calls of save_report that change the
\* filesystem: nothing, refuse the first of them, or run out of space
\* during the write.
Faults == {"none", "denied", "nospace"}

\* os.makedirs(parent, exist_ok=True)
makedirs(fsys, parent, fault) ==
    IF \E a \in Ancestors(parent) : a \in DOMAIN fsys.files
    THEN [fs |-> fsys, error |-> "NotADirectoryError"]
    ELSE IF fault = "denied"
    THEN [fs |-> fsys, error |-> "PermissionError"]
    ELSE [fs |-> [fsys EXCEPT !.dirs = fsys.dirs \cup Ancestors(parent)],
          error |-> ""]

\* OpenAndWrite opening the file in append mode.
OpenAndWrite_append(fsys, text, filename, fault) ==
    IF filename \in fsys.dirs
    THEN [fs |-> fsys, error |-> "IsADirectoryError"]
    ELSE IF ~IsDir(fsys, dirname(filename))
    THEN [fs |-> fsys, error |-> "NotADirectoryError"]
    ELSE IF fault = "denied"
    THEN [fs |-> fsys, error |-> "PermissionError"]
    ELSE IF fault = "nospace"
    THEN [fs |-> fsys, error |-> "OSError"]
    ELSE [fs |-> WriteFile(fsys, filename,
                           (IF filename \in DOMAIN fsys.files
                            THEN fsys.files[filename] ELSE "") \o text),
          error |-> ""]

\* OpenAndWrite ending what it writes with a newline of its own.
OpenAndWrite_newline(fsys, text, filename, fault) ==
    IF filename \in fsys.dirs
    THEN [fs |-> fsys, error |-> "IsADirectoryError"]
    ELSE IF ~IsDir(fsys, dirname(filename))
    THEN [fs |-> fsys, error |-> "NotADirectoryError"]
    ELSE IF fault = "denied"
    THEN [fs |-> fsys, error |-> "PermissionError"]
    ELSE IF fault = "nospace"
    THEN [fs |-> WriteFile(fsys, filename, ""), error |-> "OSError"]
    ELSE [fs |-> WriteFile(fsys, filename, text \o "\n"), error |-> ""]

\* with open(filename, 'w', encoding='utf-8') as f: f.write(report)
OpenAndWrite(fsys, text, filename, fault) ==
    IF filename \in fsys.dirs
    THEN [fs |-> fsys, error |-> "IsADirectoryError"]
    ELSE IF ~IsDir(fsys, dirname(filename))
    THEN [fs |-> fsys,
          error |-> IF Exists(fsys, dirname(filename))
                    THEN "NotADirectoryError" ELSE "FileNotFoundError"]
    ELSE IF fault = "denied"
    THEN [fs |-> fsys, error |-> "PermissionError"]
    ELSE IF fault = "nospace"
    THEN [fs |-> WriteFile(fsys, filename, ""), error |-> "OSError"]
    ELSE [fs |-> WriteFile(fsys, filename, text), error |-> ""]

\* save_report(report, filename): the filesystem it leaves and the exception
\* it raises ("" when it returns).
save_report(fsys, text, filename, fault) ==
    LET parent == dirname(filename)
        made == IF parent # <<>> /\ ~Exists(fsys, parent)
                THEN makedirs(fsys, parent, fault)
                ELSE [fs |-> fsys, error |-> ""]
    IN  IF made.error # "" THEN made
        ELSE OpenAndWrite(made.fs, text, filename, fault)

\* ------------------------------------------------------- filesystem states
OldText == "stale report\n"

NoFiles == [q \in {} |-> ""]

\* The states the output filesystem can be in before save_report(_, p) runs:
\* the first k ancestors of p exist as directories, and then either nothing
\* else exists, or a regular file sits where the next ancestor would be, or
\* (all ancestors existing) p itself is a regular file or a directory.
FsStates(p) ==
    LET chain(k) == {SubSeq(p, 1, j) : j \in 1..k}
        n == Len(p) - 1
    IN  {[dirs |-> chain(k), files |-> NoFiles] : k \in 0..n}
        \cup {[dirs |-> chain(k), files |-> [q \in {SubSeq(p, 1, k + 1)} |-> "x"]] :
                k \in 0..(n - 1)}
        \cup {[dirs |-> chain(n), files |-> [q \in {p} |-> OldText]],
              [dirs |-> chain(n) \cup {p}, files |-> NoFiles]}

\* ------------------------------------------------------------------- main
DataFile == <<"health_data.csv">>
OutFile == <<"output", "analysis_report.txt">>

Init ==
    /\ pc = "start"
    /\ inputFile \in InputFiles
    /\ data_file = DataFile
    /\ out_file = OutFile
    /\ fs \in FsStates(OutFile)
    /\ data = Unbound
    /\ stats = Unbound
    /\ abnormal = Unbound
    /\ total = Unbound
    /\ report = Unbound
    /\ stdout = <<>>
    /\ raised = ""
    /\ divided = FALSE
    /\ run = 1
    /\ prevPc = ""
    /\ prevFs = fs

\* data = load_data(data_file) returns
LoadOk ==
    /\ pc = "start"
    /\ load_data(data_file, inputFile).ok
    /\ data' = load_data(data_file, inputFile).value
    /\ pc' = "loaded"
    /\ UNCHANGED <<inputFile, fs, data_file, out_file, stats, abnormal, total,
                   report, stdout, raised, divided, run, prevPc, prevFs>>

\* LoadFail printing the diagnostic and raising the exception again.
LoadFail_reraises ==
    /\ pc = "start"
    /\ ~load_data(data_file, inputFile).ok
    /\ stdout' = Append(stdout,
                        "Error loading data from " \o PathStr(data_file) \o ": "
                            \o load_data(data_file, inputFile).error)
    /\ raised' = load_data(data_file, inputFile).error
    /\ pc' = "crashed"
    /\ UNCHANGED <<inputFile, fs, data_file, out_file, data, stats, abnormal,
                   total, report, divided, run, prevPc, prevFs>>

\* load_data raises: except Exception as e: print(...); return
LoadFail ==
    /\ pc = "start"
    /\ ~load_data(data_file, inputFile).ok
    /\ stdout' = Append(stdout,
                        "Error loading data from " \o PathStr(data_file) \o ": "
                            \o load_data(data_file, inputFile).error)
    /\ pc' = "aborted"
    /\ UNCHANGED <<inputFile, fs, data_file, out_file, data, stats, abnormal,
                   total, report, raised, divided, run, prevPc, prevFs>>

\* np.mean runs (and divides by the size) only past the guard on data.size.
MeanRuns(d) == Len(d) # 0

\* stats = calculate_statistics(data)
CalculateStatistics ==
    /\ pc = "loaded"
    /\ stats' = calculate_statistics(data)
    /\ divided' = MeanRuns(data)
    /\ pc' = "stats"
    /\ UNCHANGED <<inputFile, fs, data_file, out_file, data, abnormal, total,
                   report, stdout, raised, run, prevPc, prevFs>>

\* abnormal = find_abnormal_readings(data)
FindAbnormal ==
    /\ pc = "stats"
    /\ abnormal' = find_abnormal_readings(data)
    /\ pc' = "abnormal"
    /\ UNCHANGED <<inputFile, fs, data_file, out_file, data, stats, total,
                   report, stdout, raised, divided, run, prevPc, prevFs>>

\* total = int(data.size)
Total ==
    /\ pc = "abnormal"
    /\ total' = Len(data)
    /\ pc' = "total"
    /\ UNCHANGED <<inputFile, fs, data_file, out_file, data, stats, abnormal,
                   report, stdout, raised, divided, run, prevPc, prevFs>>

\* report = generate_report(stats, abnormal, total)
Render ==
    /\ pc = "total"
    /\ report' = generate_report(stats, abnormal, total)
    /\ pc' = "rendered"
    /\ UNCHANGED <<inputFile, fs, data_file, out_file, data, stats, abnormal,
                   total, stdout, raised, divided, run, prevPc, prevFs>>

\* Save with the call wrapped in a try that passes on any exception.
Save_swallows ==
    /\ pc = "rendered"
    /\ \E fault \in Faults :
        LET r == save_report(fs, report, out_file, fault)
        IN  /\ fs' = r.fs
            /\ raised' = ""
            /\ pc' = "saved"
    /\ UNCHANGED <<inputFile, data_file, out_file, data, stats, abnormal, total,
                   report, stdout, divided, run, prevPc, prevFs>>

\* save_report(report, out_file): it returns, or its exception leaves main.
Save ==
    /\ pc = "rendered"
    /\ \E fault \in Faults :
        LET r == save_report(fs, report, out_file, fault)
        IN  /\ fs' = r.fs
            /\ raised' = r.error
            /\ pc' = IF r.error = "" THEN "saved" ELSE "crashed"
    /\ UNCHANGED <<inputFile, data_file, out_file, data, stats, abnormal, total,
                   report, stdout, divided, run, prevPc, prevFs>>

\* print(f"Analysis complete. Report written to {out_file}")
Confirm ==
    /\ pc = "saved"
    /\ stdout' = Append(stdout,
                        "Analysis complete. Report written to " \o PathStr(out_file))
    /\ pc' = "done"
    /\ UNCHANGED <<inputFile, fs, data_file, out_file, data, stats, abnormal,
                   total, report, raised, divided, run, prevPc, prevFs>>

Ended == pc \in {"done", "aborted", "crashed"}

\* The script is run again, on the same input and filesystem.
Rerun ==
    /\ Ended
    /\ run < MaxRuns
    /\ run' = run + 1
    /\ prevPc' = pc
    /\ prevFs' = fs
    /\ pc' = "start"
    /\ data' = Unbound
    /\ stats' = Unbound
    /\ abnormal' = Unbound
    /\ total' = Unbound
    /\ report' = Unbound
    /\ stdout' = <<>>
    /\ raised' = ""
    /\ divided' = FALSE
    /\ UNCHANGED <<inputFile, fs, data_file, out_file>>

Next ==
    \/ LoadOk
    \/ LoadFail
    \/ CalculateStatistics
    \/ FindAbnormal
    \/ Total
    \/ Render
    \/ Save
    \/ Confirm
    \/ Rerun

Spec == Init /\ [][Next]_vars

\* -------------------------------------------------- positions of main
StatsBound == pc \in {"stats", "abnormal", "total", "rendered", "saved", "done", "crashed"}
AbnormalBound == pc \in {"abnormal", "total", "rendered", "saved", "done", "crashed"}
TotalBound == pc \in {"total", "rendered", "saved", "done", "crashed"}
ReportBound == pc \in {"rendered", "saved", "done", "crashed"}
DataBound == pc \notin {"start", "aborted"}

\* ------------------------------------------------------------------ claims
CountWhere(d, field, limit) ==
    Cardinality({i \in 1..Len(d) : d[i][field] > limit})

\* C1: the three counts find_abnormal_readings returns are the numbers of
\* readings with heart_rate > 90, blood_pressure_systolic > 130 and
\* glucose_level > 110, counted independently; a reading whose value equals
\* the threshold is not counted.
C1_AbnormalCounts ==
    AbnormalBound =>
        /\ abnormal.high_heart_rate = CountWhere(data, "heart_rate", 90)
        /\ abnormal.high_blood_pressure =
               CountWhere(data, "blood_pressure_systolic", 130)
        /\ abnormal.high_glucose = CountWhere(data, "glucose_level", 110)
        /\ abnormal.high_heart_rate <=
               Len(data) - Cardinality({i \in 1..Len(data) : data[i].heart_rate = 90})
        /\ abnormal.high_blood_pressure <=
               Len(data) - Cardinality({i \in 1..Len(data) :
                                           data[i].blood_pressure_systolic = 130})
        /\ abnormal.high_glucose <=
               Len(data) - Cardinality({i \in 1..Len(data) :
                                           data[i].glucose_level = 110})

\* A reading at the heart-rate threshold and one above it have been counted.
C1_Witness ==
    /\ AbnormalBound
    /\ \E i, j \in 1..Len(data) :
           data[i].heart_rate = 90 /\ data[j].heart_rate = 91
    /\ abnormal.high_heart_rate = 1

RECURSIVE TotalOf(_, _, _)
TotalOf(d, field, n) == IF n = 0 THEN 0 ELSE TotalOf(d, field, n - 1) + d[n][field]

IsMeanOf(x, d, field) ==
    x.den > 0 /\ x.num * Len(d) = x.den * TotalOf(d, field, Len(d))

\* C2: for a non-empty dataset calculate_statistics returns exactly the keys
\* avg_heart_rate, avg_systolic_bp and avg_glucose, each the sum of its
\* column divided by the number of readings.
C2_Means ==
    (StatsBound /\ Len(data) > 0) =>
        /\ DOMAIN stats = {"avg_heart_rate", "avg_systolic_bp", "avg_glucose"}
        /\ IsMeanOf(stats.avg_heart_rate, data, "heart_rate")
        /\ IsMeanOf(stats.avg_systolic_bp, data, "blood_pressure_systolic")
        /\ IsMeanOf(stats.avg_glucose, data, "glucose_level")

\* The statistics of two readings whose mean heart rate is not an integer.
C2_Witness ==
    /\ StatsBound
    /\ Len(data) = 2
    /\ stats.avg_heart_rate = [num |-> 181, den |-> 2]
    /\ stats.avg_systolic_bp = [num |-> 261, den |-> 2]

Sep40 == "========================================"

EmptyReportText ==
    "Health Sensor Data Analysis Report\n" \o Sep40 \o "\n"
    \o "Total readings: 0\n\nAverages:\n"
    \o "  - Heart Rate (avg): 0.0 bpm\n"
    \o "  - Systolic BP (avg): 0.0 mmHg\n"
    \o "  - Glucose (avg): 0.0 mg/dL\n\n"
    \o "Abnormal reading counts:\n"
    \o "  - High heart rate (>90): 0\n"
    \o "  - High systolic BP (>130): 0\n"
    \o "  - High glucose (>110): 0\n" \o Sep40

HeaderOnly == inputFile.exists /\ inputFile.readable /\ inputFile.lines = <<HeaderLine>>

\* C3: on a file with a header and no data row the load does not fail, the
\* three averages are 0.0 and no division has run, the three counts are 0,
\* the total is 0, and the report carries the line "Total readings: 0".
C3_EmptyDataset ==
    HeaderOnly =>
        /\ pc # "aborted"
        /\ DataBound => data = <<>>
        /\ StatsBound =>
              /\ stats = [avg_heart_rate |-> Zero, avg_systolic_bp |-> Zero,
                          avg_glucose |-> Zero]
              /\ ~divided
        /\ AbnormalBound =>
              abnormal = [high_heart_rate |-> 0, high_blood_pressure |-> 0,
                          high_glucose |-> 0]
        /\ TotalBound => total = 0
        /\ ReportBound => report = EmptyReportText
        /\ pc = "crashed" => raised \in {"NotADirectoryError", "IsADirectoryError",
                                         "PermissionError", "OSError"}

\* The run on a header-only file has written its report and confirmed it.
C3_Witness ==
    /\ HeaderOnly
    /\ pc = "done"
    /\ fs.files[out_file] = EmptyReportText

LoadCauses ==
    {"health_data.csv not found.",
     "[Errno 13] Permission denied: 'health_data.csv'",
     "Some errors were detected !"}

\* C4: when load_data fails, main prints one diagnostic naming the input
\* path and the cause and returns: no exception leaves main, no later step
\* has run, the output filesystem is as the run found it, and the
\* confirmation is not printed.
C4_LoadFailure ==
    /\ (~inputFile.exists /\ pc # "start") =>
            /\ pc = "aborted"
            /\ stdout = <<"Error loading data from health_data.csv: "
                            \o "health_data.csv not found.">>
    /\ pc = "aborted" =>
            /\ \E cause \in LoadCauses :
                   stdout = <<"Error loading data from health_data.csv: " \o cause>>
            /\ raised = ""
            /\ fs = prevFs
            /\ data = Unbound /\ stats = Unbound /\ abnormal = Unbound
            /\ total = Unbound /\ report = Unbound
    /\ pc \in {"start", "aborted"} => fs = prevFs

\* The input file is absent and main has returned, with an output file of
\* an earlier time still in place.
C4_Witness ==
    /\ ~inputFile.exists
    /\ pc = "aborted"
    /\ out_file \in DOMAIN fs.files
    /\ fs.files[out_file] = OldText

\* Strict parsing of the schema: an 'i4' field is an optional sign and
\* digits, the 'f4' field is a decimal number.
IsIntField(tok) ==
    LET body == IF Len(tok) > 0 /\ tok[1] \in {"-", "+"} THEN Tail(tok) ELSE tok
    IN  Len(body) > 0 /\ AllDigits(body)

ParsesAgainstSchema(r) ==
    /\ Len(r) = 8
    /\ IsIntField(r[3]) /\ IsIntField(r[4]) /\ IsIntField(r[5]) /\ IsIntField(r[7])
    /\ float(r[6]).ok

DataLinesOf(file) == IF file.lines = <<>> THEN <<>> ELSE Tail(file.lines)

\* C7: load_data fails for the whole load when the file is absent or
\* unreadable or some data line does not parse against the 8-column schema;
\* so a dataset it returns holds one reading per data line, every field
\* parsed from the text of that line and none a placeholder.
C7_LoadFailsOnBadRow ==
    DataBound =>
        /\ inputFile.exists /\ inputFile.readable
        /\ \A i \in 1..Len(DataLinesOf(inputFile)) :
               ParsesAgainstSchema(DataLinesOf(inputFile)[i])
        /\ Len(data) = Len(DataLinesOf(inputFile))

\* C8: when save_report raises, the exception leaves main and the
\* confirmation is not printed; main reports success only when the file at
\* out_file holds the report.
C8_SaveFailurePropagates ==
    /\ pc = "crashed" => raised # "" /\ stdout = <<>>
    /\ raised # "" => pc = "crashed"
    /\ pc \in {"saved", "done"} =>
           out_file \in DOMAIN fs.files /\ fs.files[out_file] = report
    /\ (pc = "done" /\ run = 1) =>
           stdout = <<"Analysis complete. Report written to output/analysis_report.txt">>

\* The write was refused although the directory was there: main has ended
\* with the exception and printed nothing.
C8_Witness ==
    /\ pc = "crashed"
    /\ raised = "PermissionError"
    /\ <<"output">> \in fs.dirs
    /\ stdout = <<>>

\* C10: when main runs to completion twice on the same input and output
\* path, the output file after the second run is byte-identical to the
\* output file after the first.
C10_Idempotent ==
    (run >= 2 /\ pc = "done" /\ prevPc = "done") =>
        /\ out_file \in DOMAIN prevFs.files
        /\ fs.files[out_file] = prevFs.files[out_file]
        /\ fs.files[out_file] = report

\* Two completed runs over a non-empty dataset.
C10_Witness ==
    /\ run = 2 /\ pc = "done" /\ prevPc = "done"
    /\ Len(data) > 0
    /\ fs.files[out_file] = prevFs.files[out_file]

\* ------------------------------------------------ generate_report alone
\* Floats given to generate_report: 0.0, 75.25, 120.04, 95.0, 93.33.., -1.0
StatSamples ==
    {Zero, Frac(301, 4), Frac(3001, 25), Frac(95, 1), Frac(280, 3), Frac(-1, 1)}

CountSamples ==
    {[high_heart_rate |-> 0, high_blood_pressure |-> 0, high_glucose |-> 0],
     [high_heart_rate |-> 2, high_blood_pressure |-> 1, high_glucose |-> 3],
     [high_heart_rate |-> 12, high_blood_pressure |-> 7, high_glucose |-> 100]}

TotalSamples == {0, 3, 100}

InitRender ==
    /\ pc = "total"
    /\ stats \in [{"avg_heart_rate", "avg_systolic_bp", "avg_glucose"} -> StatSamples]
    /\ abnormal \in CountSamples
    /\ total \in TotalSamples
    /\ inputFile = [exists |-> FALSE, readable |-> FALSE, lines |-> <<>>]
    /\ data_file = DataFile
    /\ out_file = OutFile
    /\ fs = [dirs |-> {}, files |-> NoFiles]
    /\ data = Unbound
    /\ report = Unbound
    /\ stdout = <<>>
    /\ raised = ""
    /\ divided = FALSE
    /\ run = 1
    /\ prevPc = ""
    /\ prevFs = fs

NextRender == Render

SpecRender == InitRender /\ [][NextRender]_vars

Layout(tot, hr, sys, glu, nhr, nbp, nglu) ==
    "Health Sensor Data Analysis Report\n" \o Sep40 \o "\n"
    \o "Total readings: " \o tot \o "\n\nAverages:\n"
    \o "  - Heart Rate (avg): " \o hr \o " bpm\n"
    \o "  - Systolic BP (avg): " \o sys \o " mmHg\n"
    \o "  - Glucose (avg): " \o glu \o " mg/dL\n\n"
    \o "Abnormal reading counts:\n"
    \o "  - High heart rate (>90): " \o nhr \o "\n"
    \o "  - High systolic BP (>130): " \o nbp \o "\n"
    \o "  - High glucose (>110): " \o nglu \o "\n" \o Sep40

\* C5: generate_report returns 14 lines in the fixed order, joined by single
\* newlines with none after the last: title, 40 '=', total, blank,
\* "Averages:", the three averages, blank, "Abnormal reading counts:", the
\* three counts in the order high_heart_rate, high_blood_pressure,
\* high_glucose, and 40 '='.
C5_ReportLayout ==
    pc = "rendered" =>
        /\ report = Layout(ToString(total),
                           Format1f(stats.avg_heart_rate),
                           Format1f(stats.avg_systolic_bp),
                           Format1f(stats.avg_glucose),
                           ToString(abnormal.high_heart_rate),
                           ToString(abnormal.high_blood_pressure),
                           ToString(abnormal.high_glucose))
        /\ Len(ReportLines(stats, abnormal, total)) = 14
        /\ Len(ReportLines(stats, abnormal, total)[2]) = 40
        /\ Len(ReportLines(stats, abnormal, total)[14]) = 40
        /\ Len(report) =
              13 + SumSeq([i \in 1..14 |-> Len(ReportLines(stats, abnormal, total)[i])])

\* A report whose three counts differ from each other has been rendered.
C5_Witness ==
    /\ pc = "rendered"
    /\ abnormal = [high_heart_rate |-> 2, high_blood_pressure |-> 1, high_glucose |-> 3]
    /\ total = 3
    /\ stats.avg_heart_rate = Frac(280, 3)

ExampleStats ==
    [avg_heart_rate |-> Frac(301, 4), avg_systolic_bp |-> Frac(3001, 25),
     avg_glucose |-> Frac(95, 1)]

\* The number of tenths nearest to |x|, the even one of two equally near.
NearestTenths(x) ==
    CHOOSE t \in 0..(((10 * Abs(x.num)) \div x.den) + 1) :
        LET gap == Abs(10 * Abs(x.num) - t * x.den)
        IN  /\ 2 * gap <= x.den
            /\ 2 * gap = x.den => t % 2 = 0

OneDecimal(x) ==
    (IF x.num < 0 THEN "-" ELSE "")
        \o ToString(NearestTenths(x) \div 10) \o "." \o ToString(NearestTenths(x) % 10)

\* C6 as stated: the averages 75.25, 120.04 and 95.0 are displayed as 75.3,
\* 120.0 and 95.0.
C6_AsStated ==
    (pc = "rendered" /\ stats = ExampleStats) =>
        report = Layout(ToString(total), "75.3", "120.0", "95.0",
                        ToString(abnormal.high_heart_rate),
                        ToString(abnormal.high_blood_pressure),
                        ToString(abnormal.high_glucose))

\* C6 amended: each average is displayed with exactly one digit after the
\* decimal point, rounded to the nearest tenth with a tie going to the even
\* digit; 75.25, 120.04 and 95.0 are displayed as 75.2, 120.0 and 95.0.
C6_OneDecimalHalfEven ==
    pc = "rendered" =>
        /\ report = Layout(ToString(total),
                           OneDecimal(stats.avg_heart_rate),
                           OneDecimal(stats.avg_systolic_bp),
                           OneDecimal(stats.avg_glucose),
                           ToString(abnormal.high_heart_rate),
                           ToString(abnormal.high_blood_pressure),
                           ToString(abnormal.high_glucose))
        /\ stats = ExampleStats =>
              report = Layout(ToString(total), "75.2", "120.0", "95.0",
                              ToString(abnormal.high_heart_rate),
                              ToString(abnormal.high_blood_pressure),
                              ToString(abnormal.high_glucose))

\* The example statistics have been rendered.
C6_Witness == pc = "rendered" /\ stats = ExampleStats

\* --------------------------------------------------------- save_report alone
Filenames ==
    {<<"report.txt">>, OutFile, <<"a", "b", "report.txt">>}

Texts == {"", "r", "a\nb", "a\nb\n"}

InitSave ==
    /\ pc = "rendered"
    /\ out_file \in Filenames
    /\ report \in Texts
    /\ fs \in FsStates(out_file)
    /\ prevFs = fs
    /\ inputFile = [exists |-> FALSE, readable |-> FALSE, lines |-> <<>>]
    /\ data_file = DataFile
    /\ data = Unbound
    /\ stats = Unbound
    /\ abnormal = Unbound
    /\ total = Unbound
    /\ stdout = <<>>
    /\ raised = ""
    /\ divided = FALSE
    /\ run = 1
    /\ prevPc = ""

NextSave == Save

SpecSave == InitSave /\ [][NextSave]_vars

\* C9: after save_report returns, the parent directory of filename and all
\* its ancestors exist, no directory was created when filename has no
\* directory part, the file at filename holds exactly the report text
\* whatever it held before, and nothing else has changed.
C9_SaveReportEffect ==
    pc = "saved" =>
        /\ \A a \in Ancestors(dirname(out_file)) : a \in fs.dirs
        /\ fs.dirs = prevFs.dirs \cup Ancestors(dirname(out_file))
        /\ dirname(out_file) = <<>> => fs.dirs = prevFs.dirs
        /\ out_file \in DOMAIN fs.files
        /\ fs.files[out_file] = report
        /\ DOMAIN fs.files = DOMAIN prevFs.files \cup {out_file}
        /\ \A q \in DOMAIN prevFs.files : q # out_file => fs.files[q] = prevFs.files[q]

\* save_report has returned after creating two missing levels of
\* directories for a text that ends in a newline.
C9_Witness ==
    /\ pc = "saved"
    /\ Len(out_file) = 3
    /\ prevFs.dirs = {}
    /\ report = "a\nb\n"

\* save_report has returned after replacing the content of an existing file.
C9_WitnessOverwrite ==
    /\ pc = "saved"
    /\ out_file \in DOMAIN prevFs.files
    /\ prevFs.files[out_file] = OldText
    /\ fs.files[out_file] = "r"

=============================================================================
